---- MODULE Spec2Model ----
(***************************************************************************)
(* A model of rapids_dependency_file_generator/                            *)
(* _rapids_dependency_file_generator.py: the matrix expander (grid), the   *)
(* specific-entry matcher (should_use_specific_entry), the accumulator     *)
(* (_DependencyCollection), the file-name deriver (get_filename), the      *)
(* renderer (make_dependency_file) and the driver (make_dependency_files). *)
(*                                                                         *)
(* Conventions.                                                            *)
(*  - A Python str is a sequence of one-character strings, so that glob    *)
(*    matching, joining and replace(".", "") are computed, not assumed.    *)
(*  - A Python dict whose iteration order the code depends on (a matrix,   *)
(*    a matrix combo, a rule's matrix) is a sequence of <<key, value>>     *)
(*    pairs with pairwise distinct keys, in insertion order.               *)
(*  - dict_deps, whose keys are bucket names such as "pip", is a function  *)
(*    from the set of its keys: Python compares dicts regardless of order. *)
(***************************************************************************)
EXTENDS Integers, Sequences, FiniteSets, TLC

\* ------------------------------------------------------------------------
\* Bounds of the model
\* ------------------------------------------------------------------------

\* The longest value list of one matrix axis handed to grid.
MaxAxisLen == 2

\* The most MatrixRules one SpecificEntry holds.
MaxRules == 3

\* The longest list of entries handed to one _DependencyCollection.update.
MaxDeps == 2

\* The longest member list of a bucket handed to update.
MaxBucketLen == 2

\* ------------------------------------------------------------------------
\* Strings
\* ------------------------------------------------------------------------

\* Code points of the characters the model's strings are made of (Python
\* compares str by code point).
Ord(c) ==
    CASE c = "*" -> 42
      [] c = "-" -> 45
      [] c = "." -> 46
      [] c = "1" -> 49
      [] c = "2" -> 50
      [] c = "?" -> 63
      [] c = "[" -> 91
      [] c = "]" -> 93
      [] c = "_" -> 95
      [] c = "a" -> 97
      [] c = "b" -> 98
      [] c = "c" -> 99
      [] c = "d" -> 100
      [] c = "h" -> 104
      [] c = "r" -> 114
      [] c = "u" -> 117
      [] c = "x" -> 120
      [] c = "y" -> 121
      [] OTHER -> 122

\* Python's s < t on str: lexicographic by code point, a proper prefix first.
RECURSIVE StrLess(_, _)
StrLess(s, t) ==
    IF t = <<>> THEN FALSE
    ELSE IF s = <<>> THEN TRUE
    ELSE IF Head(s) = Head(t) THEN StrLess(Tail(s), Tail(t))
    ELSE Ord(Head(s)) < Ord(Head(t))

\* sorted(S) for a set of str.
RECURSIVE sorted(_)
sorted(S) ==
    IF S = {} THEN <<>>
    ELSE LET m == CHOOSE x \in S : \A y \in S \ {x} : StrLess(x, y)
         IN  <<m>> \o sorted(S \ {m})

\* set(l) for a list.
ToSet(l) == {l[i] : i \in 1..Len(l)}

\* The sequences over S of length at most n.
SeqUpTo(S, n) == UNION {[1..k -> S] : k \in 0..n}

\* ------------------------------------------------------------------------
\* Ordered dicts: sequences of <<key, value>> with distinct keys
\* ------------------------------------------------------------------------

DictKeys(d) == {d[i][1] : i \in 1..Len(d)}

HasKey(d, k) == \E i \in 1..Len(d) : d[i][1] = k

DictGet(d, k) == d[CHOOSE i \in 1..Len(d) : d[i][1] = k][2]

\* frozenset(d.items())
ItemSet(d) == {d[i] : i \in 1..Len(d)}

IsDict(d) == \A i, j \in 1..Len(d) : d[i][1] = d[j][1] => i = j

\* The dicts with keys among K (in any insertion order) and values in V.
DictsOver(K, V) ==
    {d \in SeqUpTo(K \X V, Cardinality(K)) : IsDict(d)}

\* ------------------------------------------------------------------------
\* grid (lines 72-93)
\* ------------------------------------------------------------------------

\* A plausible slip: pair the axes element by element (zip) instead of
\* taking their product.
RECURSIVE product_zip(_)
product_zip(lists) ==
    IF lists = <<>> THEN << <<>> >>
    ELSE LET rest == product_zip(Tail(lists))
             n == IF Len(lists) = 1 THEN Len(Head(lists))
                  ELSE IF Len(Head(lists)) < Len(rest) THEN Len(Head(lists))
                  ELSE Len(rest)
         IN  [i \in 1..n |-> <<Head(lists)[i]>> \o rest[IF Len(lists) = 1 THEN 1 ELSE i]]

\* itertools.product(*lists): every tuple taking one value of each list, the
\* last list varying fastest.
RECURSIVE product(_)
product(lists) ==
    IF lists = <<>> THEN << <<>> >>
    ELSE LET rest == product(Tail(lists))
             first == Head(lists)
             n == Len(rest)
         IN  [i \in 1..(Len(first) * n) |->
                <<first[((i - 1) \div n) + 1]>> \o rest[((i - 1) % n) + 1]]

\* dict(zip(keys, values))
zip_dict(keys, values) == [i \in 1..Len(keys) |-> <<keys[i], values[i]>>]

grid(gridspec) ==
    LET keys == [i \in 1..Len(gridspec) |-> gridspec[i][1]]
        lists == [i \in 1..Len(gridspec) |-> gridspec[i][2]]
        tuples == product(lists)
    IN  [i \in 1..Len(tuples) |-> zip_dict(keys, tuples[i])]

\* ------------------------------------------------------------------------
\* fnmatch.fnmatch as called on line 325 (POSIX: normcase is the identity)
\* ------------------------------------------------------------------------

\* The index of the "]" that closes the class opened by pat[1] = "[", or 0:
\* a "!" right after "[" and a "]" right after that are part of the class.
ClosingBracket(pat) ==
    LET j0 == IF Len(pat) >= 2 /\ pat[2] = "!" THEN 3 ELSE 2
        j1 == IF Len(pat) >= j0 /\ pat[j0] = "]" THEN j0 + 1 ELSE j0
        cands == {j \in j1..Len(pat) : pat[j] = "]"}
    IN  IF cands = {} THEN 0
        ELSE CHOOSE j \in cands : \A k \in cands : j <= k

\* Whether the class pat[2..close-1] admits character c (no ranges: the
\* model's patterns hold no "-").
InClass(c, pat, close) ==
    LET negated == pat[2] = "!"
        from == IF negated THEN 3 ELSE 2
        members == {pat[j] : j \in from..(close - 1)}
    IN  IF negated THEN c \notin members ELSE c \in members

RECURSIVE fnmatch(_, _)
fnmatch(name, pat) ==
    IF pat = <<>> THEN name = <<>>
    ELSE IF Head(pat) = "*" THEN
        \/ fnmatch(name, Tail(pat))
        \/ name # <<>> /\ fnmatch(Tail(name), pat)
    ELSE IF Head(pat) = "?" THEN
        name # <<>> /\ fnmatch(Tail(name), Tail(pat))
    ELSE IF Head(pat) = "[" /\ ClosingBracket(pat) # 0 THEN
        LET close == ClosingBracket(pat)
        IN  /\ name # <<>>
            /\ InClass(Head(name), pat, close)
            /\ fnmatch(Tail(name), SubSeq(pat, close + 1, Len(pat)))
    ELSE
        name # <<>> /\ Head(name) = Head(pat) /\ fnmatch(Tail(name), Tail(pat))

\* ------------------------------------------------------------------------
\* should_use_specific_entry (lines 295-327)
\* ------------------------------------------------------------------------

\* A plausible slip: a rule key the combo lacks is skipped instead of
\* failing the match.
RECURSIVE should_use_skip_absent(_, _)
should_use_skip_absent(matrix_combo, specific_entry_matrix) ==
    IF specific_entry_matrix = <<>> THEN TRUE
    ELSE LET specific_key == Head(specific_entry_matrix)[1]
             specific_value == Head(specific_entry_matrix)[2]
         IN  IF HasKey(matrix_combo, specific_key)
                /\ ~fnmatch(DictGet(matrix_combo, specific_key), specific_value)
             THEN FALSE
             ELSE should_use_skip_absent(matrix_combo, Tail(specific_entry_matrix))

\* all(... for specific_key, specific_value in specific_entry_matrix.items()):
\* the items in order, stopping at the first false one.
RECURSIVE should_use_specific_entry(_, _)
should_use_specific_entry(matrix_combo, specific_entry_matrix) ==
    IF specific_entry_matrix = <<>> THEN TRUE
    ELSE LET specific_key == Head(specific_entry_matrix)[1]
             specific_value == Head(specific_entry_matrix)[2]
         IN  IF HasKey(matrix_combo, specific_key)
                /\ fnmatch(DictGet(matrix_combo, specific_key), specific_value)
             THEN should_use_specific_entry(matrix_combo, Tail(specific_entry_matrix))
             ELSE FALSE

\* ------------------------------------------------------------------------
\* Dependency entries: str | dict[str, list[str]]
\* ------------------------------------------------------------------------

\* The dict with no key.
EmptyDict == [k \in {} |-> <<>>]

StrDep(s) == [isdict |-> FALSE, str |-> s, dict |-> EmptyDict]
DictDep(d) == [isdict |-> TRUE, str |-> <<>>, dict |-> d]

\* {"pip": l}
PipDict(l) == [k \in {"pip"} |-> l]

\* ------------------------------------------------------------------------
\* _DependencyCollection (lines 330-353)
\* ------------------------------------------------------------------------

\* for k, v in dep.items(): the keys of one dict are distinct, so each bucket
\* is touched once and the order of the items does not matter. The code
\* stores v itself for a new bucket (line 344: the caller's list, aliased)
\* and extends and re-sorts an existing one (lines 341-342); with no caller
\* changing its lists in between, aliasing leaves the same values as copying.
merge_dict(dict_deps, dep) ==
    [k \in (DOMAIN dict_deps) \union (DOMAIN dep) |->
        IF k \notin DOMAIN dep THEN dict_deps[k]
        ELSE IF k \in DOMAIN dict_deps
             THEN sorted(ToSet(dict_deps[k] \o dep[k]))
             ELSE dep[k]]

RECURSIVE update(_, _)
update(self, deps) ==
    IF deps = <<>> THEN self
    ELSE LET dep == Head(deps)
             next == IF dep.isdict
                     THEN [self EXCEPT !.dict_deps = merge_dict(self.dict_deps, dep.dict)]
                     ELSE [self EXCEPT !.str_deps = self.str_deps \union {dep.str}]
         IN  update(next, Tail(deps))

deps_list(self) ==
    LET strs == sorted(self.str_deps)
        plain == [i \in 1..Len(strs) |-> StrDep(strs[i])]
    IN  IF DOMAIN self.dict_deps # {}
        THEN Append(plain, DictDep(self.dict_deps))
        ELSE plain

\* _DependencyCollection(str_deps=set(), dict_deps={})
EmptyCollection == [str_deps |-> {}, dict_deps |-> EmptyDict]

\* ------------------------------------------------------------------------
\* Resolution of one SpecificEntry for one tuple (lines 434-474)
\* ------------------------------------------------------------------------

\* _config.PipRequirements(pip=l): an entry that is not a str and has .pip
PipRequirements(l) == DictDep(PipDict(l))

\* A MatrixRule of the config: its matrix and its packages.
MatrixRule(m, pkgs) == [matrix |-> m, packages |-> pkgs]

\* bool(rule) for a rule object of _config: the class is not among the
\* sources; a rule object that exists counts as true ("if a fallback exists,
\* append its packages").
RuleTruthy(rule) == TRUE

\* Outcomes of resolving one SpecificEntry: error is "" or the ValueError
\* raised; rule is the index of the rule whose packages were appended (0:
\* none).
Skipped == [error |-> "", packages |-> <<>>, rule |-> 0, skipped |-> TRUE]
Raised(e) == [error |-> e, packages |-> <<>>, rule |-> 0, skipped |-> FALSE]
Used(matrices, i) ==
    [error |-> "", packages |-> matrices[i].packages, rule |-> i, skipped |-> FALSE]

\* A plausible slip: the distinct matrices are counted as ordered item
\* lists, so the same pairs in another order pass as different.
num_unique_ordered(matrices) ==
    Cardinality({matrices[i].matrix : i \in 1..Len(matrices)})

\* len({frozenset(e.matrix.items()) for e in specific_entry.matrices})
num_unique(matrices) ==
    Cardinality({ItemSet(matrices[i].matrix) : i \in 1..Len(matrices)})

\* A plausible slip: the fallback is used only when its package list is
\* non-empty.
scan_else_packages(matrices, fallback_entry) ==
    IF fallback_entry # 0 /\ matrices[fallback_entry].packages # <<>>
    THEN Used(matrices, fallback_entry)
    ELSE Raised("No matching matrix found")

\* The else branch of the for loop (lines 470-474); fallback_entry is the
\* index of the saved rule, 0 for None.
scan_else(matrices, fallback_entry) ==
    IF fallback_entry # 0 /\ RuleTruthy(matrices[fallback_entry])
    THEN Used(matrices, fallback_entry)
    ELSE Raised("No matching matrix found")

\* A plausible slip: an empty-matrix rule is taken as soon as the scan
\* meets it.
RECURSIVE scan_fallback_at_once(_, _, _, _)
scan_fallback_at_once(matrices, combo, i, fallback_entry) ==
    IF i > Len(matrices) THEN scan_else(matrices, fallback_entry)
    ELSE IF matrices[i].matrix = <<>> THEN Used(matrices, i)
    ELSE IF should_use_specific_entry(combo, matrices[i].matrix) THEN Used(matrices, i)
    ELSE scan_fallback_at_once(matrices, combo, i + 1, fallback_entry)

\* for specific_matrices_entry in specific_entry.matrices (lines 453-469),
\* from rule i on.
RECURSIVE scan_matrices(_, _, _, _)
scan_matrices(matrices, combo, i, fallback_entry) ==
    IF i > Len(matrices) THEN scan_else(matrices, fallback_entry)
    ELSE IF matrices[i].matrix = <<>> THEN scan_matrices(matrices, combo, i + 1, i)
    ELSE IF should_use_specific_entry(combo, matrices[i].matrix) THEN Used(matrices, i)
    ELSE scan_matrices(matrices, combo, i + 1, fallback_entry)

\* The body of "for specific_entry in dependency_entry.specific".
resolve_specific(specific_entry, file_type, combo) ==
    IF file_type \notin specific_entry.output_types THEN Skipped
    ELSE IF Len(specific_entry.matrices) # num_unique(specific_entry.matrices)
         THEN Raised("All matrix entries must be unique")
    ELSE scan_matrices(specific_entry.matrices, combo, 1, 0)

\* ------------------------------------------------------------------------
\* dedupe (lines 43-69)
\* ------------------------------------------------------------------------

dedupe(dependencies) ==
    LET string_deps == {dependencies[i].str :
                            i \in {j \in 1..Len(dependencies) : ~dependencies[j].isdict}}
        pip_deps == UNION {ToSet(dependencies[i].dict["pip"]) :
                            i \in {j \in 1..Len(dependencies) : dependencies[j].isdict}}
        strs == sorted(string_deps)
        plain == [i \in 1..Len(strs) |-> StrDep(strs[i])]
    IN  IF pip_deps # {}
        THEN Append(plain, DictDep(PipDict(sorted(pip_deps))))
        ELSE plain

\* ------------------------------------------------------------------------
\* get_filename (lines 216-260) and get_output_dir (lines 263-292)
\* ------------------------------------------------------------------------

\* sep.join(parts)
RECURSIVE Join(_, _)
Join(sep, parts) ==
    IF parts = <<>> THEN <<>>
    ELSE IF Len(parts) = 1 THEN parts[1]
    ELSE parts[1] \o sep \o Join(sep, Tail(parts))

IsNotDot(c) == c # "."

\* s.replace(".", "")
StripDots(s) == SelectSeq(s, IsNotDot)

IsNonEmpty(s) == s # <<>>

str_requirements == <<"r", "e", "q", "u", "i", "r", "e", "m", "e", "n", "t", "s">>
str_pyproject == <<"p", "y", "p", "r", "o", "j", "e", "c", "t">>

file_ext(file_type) ==
    CASE file_type = "conda" -> <<".", "y", "a", "m", "l">>
      [] file_type = "requirements" -> <<".", "t", "x", "t">>
      [] file_type = "pyproject" -> <<".", "t", "o", "m", "l">>
      [] OTHER -> <<>>

get_filename(file_type, file_key, matrix_combo) ==
    LET file_type_prefix == IF file_type = "requirements" THEN str_requirements ELSE <<>>
        file_name_prefix == IF file_type = "pyproject" THEN str_pyproject ELSE file_key
        pairs == [i \in 1..Len(matrix_combo) |->
                    matrix_combo[i][1] \o <<"-">> \o matrix_combo[i][2]]
        suffix == IF file_type = "pyproject" THEN <<>> ELSE Join(<<"_">>, pairs)
        parts == SelectSeq(<<file_type_prefix, file_name_prefix, suffix>>, IsNonEmpty)
    IN  StripDots(Join(<<"_">>, parts)) \o file_ext(file_type)

\* os.path.splitext(p)[0] for a name without "/": cut at the last dot,
\* unless only dots precede it.
splitext_root(p) ==
    LET dots == {i \in 1..Len(p) : p[i] = "."}
        dotIndex == IF dots = {} THEN 0 ELSE CHOOSE i \in dots : \A j \in dots : j <= i
    IN  IF dotIndex > 0 /\ \E i \in 1..(dotIndex - 1) : p[i] # "."
        THEN SubSeq(p, 1, dotIndex - 1)
        ELSE p

\* The directory is the one the file's config names for the type, under
\* dirname(config path), which is the same for every file and left out.
get_output_dir(file_type, file_config) ==
    CASE file_type = "conda" -> file_config.conda_dir
      [] file_type = "requirements" -> file_config.requirements_dir
      [] file_type = "pyproject" -> file_config.pyproject_dir
      [] OTHER -> ""

\* ------------------------------------------------------------------------
\* make_dependency_file (lines 96-213)
\* ------------------------------------------------------------------------

NoName == [isnone |-> TRUE, str |-> <<>>]
Name(s) == [isnone |-> FALSE, str |-> s]

\* file_config.extras: None, or a FileExtras with a table and an optional key.
NoExtras == [isnone |-> TRUE, table |-> "", key_isnone |-> TRUE, key |-> ""]
FileExtras(table, key_isnone, key) ==
    [isnone |-> FALSE, table |-> table, key_isnone |-> key_isnone, key |-> key]

\* What a rendered file holds, header and layout aside: for pyproject, the
\* manifest read from the output directory with table[key] set to the
\* dependencies.
Contents(file_type, name, channels, table, key, dependencies) ==
    [file_type |-> file_type, name |-> name, channels |-> channels,
     table |-> table, key |-> key, dependencies |-> dependencies]

NoContents == Contents("", NoName, <<>>, "", "", <<>>)

Rendered(contents) == [error |-> "", contents |-> contents]
RenderError(e) == [error |-> e, contents |-> NoContents]

make_dependency_file(file_type, conda_env_name, conda_channels, dependencies, extras) ==
    CASE file_type = "conda" ->
            Rendered(Contents(file_type, conda_env_name, conda_channels, "", "", dependencies))
      [] file_type = "requirements" ->
            IF \E i \in 1..Len(dependencies) : dependencies[i].isdict
            THEN RenderError("Map inputs are not allowed for the 'requirements' file type")
            ELSE Rendered(Contents(file_type, NoName, <<>>, "", "", dependencies))
      [] file_type = "pyproject" ->
            IF extras.isnone
            THEN RenderError("The 'extras' field must be provided for the 'pyproject' file type")
            ELSE IF extras.table \in {"build-system", "project"}
            THEN IF ~extras.key_isnone
                 THEN RenderError("The 'key' field is not allowed for the 'pyproject' file type")
                 ELSE Rendered(Contents(file_type, NoName, <<>>, extras.table,
                        IF extras.table = "build-system" THEN "requires" ELSE "dependencies",
                        dependencies))
            ELSE IF extras.key_isnone
                 THEN RenderError("The 'key' field is required for the 'pyproject' file type")
                 ELSE Rendered(Contents(file_type, NoName, <<>>, extras.table, extras.key,
                        dependencies))
      [] OTHER -> Rendered(NoContents)

\* ------------------------------------------------------------------------
\* make_dependency_files (lines 356-533): one tuple
\* ------------------------------------------------------------------------

\* for common_entry in dependency_entry.common (lines 429-432)
RECURSIVE collect_common(_, _, _)
collect_common(common, file_type, dependencies) ==
    IF common = <<>> THEN dependencies
    ELSE collect_common(Tail(common), file_type,
            IF file_type \in Head(common).output_types
            THEN dependencies \o Head(common).packages
            ELSE dependencies)

Collected(e, dependencies) == [error |-> e, dependencies |-> dependencies]

\* for specific_entry in dependency_entry.specific (lines 434-474)
RECURSIVE collect_specific(_, _, _, _)
collect_specific(specific, file_type, combo, dependencies) ==
    IF specific = <<>> THEN Collected("", dependencies)
    ELSE LET r == resolve_specific(Head(specific), file_type, combo)
         IN  IF r.error # "" THEN Collected(r.error, dependencies)
             ELSE collect_specific(Tail(specific), file_type, combo,
                                   dependencies \o r.packages)

\* for include in file_config.includes (lines 426-474)
RECURSIVE collect_includes(_, _, _, _, _)
collect_includes(config, includes, file_type, combo, dependencies) ==
    IF includes = <<>> THEN Collected("", dependencies)
    ELSE LET dependency_entry == config.dependencies[Head(includes)]
             r == collect_specific(dependency_entry.specific, file_type, combo,
                    collect_common(dependency_entry.common, file_type, dependencies))
         IN  IF r.error # "" THEN r
             ELSE collect_includes(config, Tail(includes), file_type, combo, r.dependencies)

Tuple(file_key, file_type, combo) ==
    [file_key |-> file_key, file_type |-> file_type, matrix_combo |-> combo]

\* Lines 421-494 for one (file_key, file_type, matrix_combo): the ValueError
\* raised, or the deduplicated list, the path and the contents.
tuple_result(config, prepend_channels, t) ==
    LET file_config == config.files[t.file_key]
        collected == collect_includes(config, file_config.includes, t.file_type,
                                      t.matrix_combo, <<>>)
        full_file_name == get_filename(t.file_type, t.file_key, t.matrix_combo)
        deduped_deps == dedupe(collected.dependencies)
        output_dir == get_output_dir(t.file_type, file_config)
        rendered == make_dependency_file(t.file_type, Name(splitext_root(full_file_name)),
                        prepend_channels \o config.channels, deduped_deps,
                        file_config.extras)
    IN  [error |-> IF collected.error # "" THEN collected.error ELSE rendered.error,
         deduped_deps |-> deduped_deps,
         file_path |-> [dir |-> output_dir, name |-> full_file_name],
         contents |-> rendered.contents]

\* A plausible slip: the file is opened for writing before its contents
\* are made, so a tuple that fails leaves an empty file behind.
written_open_first(written, to_stdout, result) ==
    IF to_stdout THEN written
    ELSE Append(written, [file_path |-> result.file_path,
                          contents |-> IF result.error = "" THEN result.contents
                                       ELSE NoContents])

\* Lines 501-505: the files written so far, in order, after one tuple.
written_after(written, to_stdout, result) ==
    IF to_stdout \/ result.error # "" THEN written
    ELSE Append(written, [file_path |-> result.file_path, contents |-> result.contents])

\* Lines 496-498: what has been printed so far, after one tuple.
printed_after(printed, to_stdout, file_keys, result) ==
    IF to_stdout /\ result.error = "" /\ Len(file_keys) = 1
    THEN Append(printed, result.contents)
    ELSE printed

\* A plausible slip: the accumulator is built anew for each tuple, so the
\* merged document holds the last tuple's list only.
merged_last_only(all_deps, to_stdout, file_keys, result) ==
    IF to_stdout /\ result.error = "" /\ Len(file_keys) # 1
    THEN update(EmptyCollection, result.deduped_deps)
    ELSE all_deps

\* Lines 496-500: all_dependencies after one tuple.
merged_after(all_deps, to_stdout, file_keys, result) ==
    IF to_stdout /\ result.error = "" /\ Len(file_keys) # 1
    THEN update(all_deps, result.deduped_deps)
    ELSE all_deps

\* A plausible slip: the file's declared output types are used although an
\* override is given.
file_types_declared(file_config, output_given, output) == file_config.output

\* Line 411: file_config.output if output is None else output
file_types_to_generate(file_config, output_given, output) ==
    IF output_given THEN output ELSE file_config.output

\* Lines 412-415
file_matrix(file_config, matrix) ==
    IF matrix.given THEN matrix.dict ELSE file_config.matrix

\* The orders in which a Python set may be iterated.
SetOrders(S) ==
    {o \in [1..Cardinality(S) -> S] : \A i, j \in 1..Cardinality(S) : o[i] = o[j] => i = j}

\* Lines 419-420: the tuples of one file key, the types in the order the set
\* yields them, the combos of the grid under each.
tuples_of(file_key, type_order, calculated_grid) ==
    LET n == Len(calculated_grid)
    IN  [i \in 1..(Len(type_order) * n) |->
            Tuple(file_key, type_order[((i - 1) \div n) + 1],
                  calculated_grid[((i - 1) % n) + 1])]

\* ------------------------------------------------------------------------
\* Names used by the inputs
\* ------------------------------------------------------------------------

cuda == <<"c", "u", "d", "a">>
arch == <<"a", "r", "c", "h">>

v11 == <<"1", "1">>
v12 == <<"1", "2">>

\* "1.1", which get_filename writes as it writes "11"
v1_1 == <<"1", ".", "1">>

AxisNames == {cuda, arch}
AxisValues == {v11, v12}

pkg_a == <<"a">>
pkg_b == <<"b">>
pkg_x == <<"x">>
pkg_y == <<"y">>

\* ------------------------------------------------------------------------
\* State
\* ------------------------------------------------------------------------

VARIABLES
    \* grid: its argument, the combos it yielded, and whether it has run
    gridspec, grid_out, grid_pc,
    \* should_use_specific_entry: its arguments, its result, the result
    \* before the last key was added to the combo, and the call's position
    matrix_combo, specific_entry_matrix, match_out, match_before, match_pc,
    \* _DependencyCollection: the collection, the argument of the last update,
    \* the collection had that update been applied a second time, and the
    \* collection had the update been given its entries in another order
    all_dependencies, upd_deps, upd_again, upd_permuted,
    \* one SpecificEntry met by the loops of make_dependency_files: the entry,
    \* the output type and the combo of the tuple, the outcome, the position
    res_entry, res_file_type, res_combo, res_out, res_pc,
    \* make_dependency_files: the parsed config; the arguments as passed
    \* (file_keys, output, matrix, prepend_channels, to_stdout); the set object
    \* behind output, which line 524 pops from; the position in the function;
    \* the index of the file key in hand; the tuples of that file key still to
    \* do; the files written and the documents printed, in order; what was
    \* raised and where; the tuples whose body was entered, in order
    parsed_config, args, output, pc, key_index, todo, written, printed, raised, processed

grid_vars == <<gridspec, grid_out, grid_pc>>
match_vars == <<matrix_combo, specific_entry_matrix, match_out, match_before, match_pc>>
coll_vars == <<all_dependencies, upd_deps, upd_again, upd_permuted>>
res_vars == <<res_entry, res_file_type, res_combo, res_out, res_pc>>
coll_ghosts == <<upd_deps, upd_again, upd_permuted>>
run_vars == <<parsed_config, args, output, pc, key_index, todo, written, printed, raised,
              processed>>
vars == <<grid_vars, match_vars, coll_vars, res_vars, run_vars>>

GridIdle == gridspec = <<>> /\ grid_out = <<>> /\ grid_pc = "idle"
MatchIdle ==
    /\ matrix_combo = <<>> /\ specific_entry_matrix = <<>>
    /\ match_out = FALSE /\ match_before = FALSE /\ match_pc = "idle"

CollIdle ==
    /\ all_dependencies = EmptyCollection /\ upd_deps = <<>>
    /\ upd_again = EmptyCollection /\ upd_permuted = EmptyCollection

ResIdle ==
    /\ res_entry = [output_types |-> {}, matrices |-> <<>>]
    /\ res_file_type = "conda" /\ res_combo = <<>>
    /\ res_out = Skipped /\ res_pc = "idle"

NotRaised == [kind |-> "", error |-> "", at |-> ""]
Raise(kind, error, at) == [kind |-> kind, error |-> error, at |-> at]

NoOutput == [given |-> FALSE, types |-> {}]
NoMatrix == [given |-> FALSE, dict |-> <<>>]

RunIdle ==
    /\ parsed_config = [files |-> EmptyDict, dependencies |-> EmptyDict, channels |-> <<>>]
    /\ args = [file_keys |-> <<>>, output |-> NoOutput, matrix |-> NoMatrix,
               prepend_channels |-> <<>>, to_stdout |-> FALSE]
    /\ output = {}
    /\ pc = "idle"
    /\ key_index = 0
    /\ todo = <<>>
    /\ written = <<>>
    /\ printed = <<>>
    /\ raised = NotRaised
    /\ processed = <<>>

\* ------------------------------------------------------------------------
\* Specification of grid
\* ------------------------------------------------------------------------

GridSpecs == DictsOver(AxisNames, SeqUpTo(AxisValues, MaxAxisLen))

InitGrid ==
    /\ gridspec \in GridSpecs
    /\ grid_out = <<>>
    /\ grid_pc = "call"
    /\ MatchIdle
    /\ CollIdle
    /\ ResIdle
    /\ RunIdle

CallGrid ==
    /\ grid_pc = "call"
    /\ grid_out' = grid(gridspec)
    /\ grid_pc' = "yielded"
    /\ UNCHANGED <<gridspec, match_vars, coll_vars, res_vars, run_vars>>

NextGrid == CallGrid

SpecGrid == InitGrid /\ [][NextGrid]_vars

\* ------------------------------------------------------------------------
\* Specification of should_use_specific_entry
\* ------------------------------------------------------------------------

Patterns == {v11, <<"1", "*">>, <<"1", "?">>, <<"*">>, <<"[", "!", "1", "]", "2">>, <<"[">>}

InitMatch ==
    /\ matrix_combo \in DictsOver(AxisNames, AxisValues)
    /\ specific_entry_matrix \in DictsOver(AxisNames, Patterns)
    /\ match_out = FALSE
    /\ match_before = FALSE
    /\ match_pc = "call"
    /\ GridIdle
    /\ CollIdle
    /\ ResIdle
    /\ RunIdle

CallMatch ==
    /\ match_pc = "call"
    /\ match_out' = should_use_specific_entry(matrix_combo, specific_entry_matrix)
    /\ match_before' = match_out
    /\ match_pc' = "returned"
    /\ UNCHANGED <<matrix_combo, specific_entry_matrix, grid_vars, coll_vars, res_vars, run_vars>>

\* The caller adds to the combo a key the rule does not mention (a wider
\* files.matrix) and asks again.
ExtendCombo ==
    /\ match_pc = "returned"
    /\ \E k \in AxisNames, v \in AxisValues :
          /\ ~HasKey(matrix_combo, k)
          /\ ~HasKey(specific_entry_matrix, k)
          /\ matrix_combo' = Append(matrix_combo, <<k, v>>)
          /\ match_out' = should_use_specific_entry(matrix_combo', specific_entry_matrix)
    /\ match_before' = match_out
    /\ match_pc' = "extended"
    /\ UNCHANGED <<specific_entry_matrix, grid_vars, coll_vars, res_vars, run_vars>>

NextMatch == CallMatch \/ ExtendCombo

SpecMatch == InitMatch /\ [][NextMatch]_vars

\* ------------------------------------------------------------------------
\* Specification of _DependencyCollection
\* ------------------------------------------------------------------------

UpdateEntries ==
    {StrDep(s) : s \in {pkg_a, pkg_b}}
        \union {DictDep(PipDict(l)) : l \in SeqUpTo({pkg_x, pkg_y}, MaxBucketLen)}

Permuted(l, p) == [i \in 1..Len(l) |-> l[p[i]]]

InitColl ==
    /\ all_dependencies = EmptyCollection
    /\ upd_deps = <<>>
    /\ upd_again = EmptyCollection
    /\ upd_permuted = EmptyCollection
    /\ GridIdle
    /\ MatchIdle
    /\ ResIdle
    /\ RunIdle

Update ==
    \E deps \in SeqUpTo(UpdateEntries, MaxDeps) :
        /\ all_dependencies' = update(all_dependencies, deps)
        /\ upd_deps' = deps
        /\ upd_again' = update(update(all_dependencies, deps), deps)
        /\ \E p \in Permutations(1..Len(deps)) :
              upd_permuted' = update(all_dependencies, Permuted(deps, p))
        /\ UNCHANGED <<grid_vars, match_vars, res_vars, run_vars>>

NextColl == Update

SpecColl == InitColl /\ [][NextColl]_vars

\* ------------------------------------------------------------------------
\* Specification of the resolution of one SpecificEntry
\* ------------------------------------------------------------------------

star == <<"*">>

\* The rules an entry is made of: two fallbacks, two overlapping patterns on
\* one axis, and the same two pairs declared in either order.
RuleUniverse ==
    { MatrixRule(<<>>, <<StrDep(pkg_a)>>),
      MatrixRule(<<>>, <<>>),
      MatrixRule(<< <<cuda, v11>> >>, <<StrDep(pkg_x)>>),
      MatrixRule(<< <<cuda, <<"1", "*">> >> >>, <<StrDep(pkg_y)>>),
      MatrixRule(<< <<cuda, v11>>, <<arch, star>> >>, <<>>),
      MatrixRule(<< <<arch, star>>, <<cuda, v11>> >>, <<StrDep(pkg_b)>>) }

InitResolve ==
    /\ res_entry \in [output_types : {{"conda"}, {"conda", "requirements"}},
                      matrices : SeqUpTo(RuleUniverse, MaxRules)]
    /\ res_file_type \in {"conda", "requirements"}
    /\ res_combo \in DictsOver(AxisNames, AxisValues)
    /\ res_out = Skipped
    /\ res_pc = "entry"
    /\ GridIdle
    /\ MatchIdle
    /\ CollIdle
    /\ RunIdle

ResolveEntry ==
    /\ res_pc = "entry"
    /\ res_out' = resolve_specific(res_entry, res_file_type, res_combo)
    /\ res_pc' = "resolved"
    /\ UNCHANGED <<res_entry, res_file_type, res_combo, grid_vars, match_vars, coll_vars, run_vars>>

NextResolve == ResolveEntry

SpecResolve == InitResolve /\ [][NextResolve]_vars

\* ------------------------------------------------------------------------
\* Specification of make_dependency_files
\* ------------------------------------------------------------------------

key_a == <<"a">>
key_b == <<"b">>

AllTypes == {"conda", "requirements", "pyproject"}

CommonEntry(types, pkgs) == [output_types |-> types, packages |-> pkgs]
SpecificEntry(types, rules) == [output_types |-> types, matrices |-> rules]
DependencySet(common, specific) == [common |-> common, specific |-> specific]

File(types, includes, m, extras) ==
    [output |-> types, includes |-> includes, matrix |-> m, extras |-> extras,
     conda_dir |-> "conda/environments", requirements_dir |-> "python",
     pyproject_dir |-> "python"]

rule_11 == MatrixRule(<< <<cuda, v11>> >>, <<StrDep(pkg_x)>>)
rule_1star == MatrixRule(<< <<cuda, <<"1", "*">> >> >>, <<StrDep(pkg_y), StrDep(pkg_a)>>)
rule_fallback == MatrixRule(<<>>, <<StrDep(pkg_b)>>)
rule_fallback_empty == MatrixRule(<<>>, <<>>)

\* The rules of the SpecificEntry of include "i2": pip requirements that
\* differ from one combo to the next.
rule_pip_11 == MatrixRule(<< <<cuda, v11>> >>, <<PipRequirements(<<pkg_b>>)>>)
rule_pip_fallback == MatrixRule(<<>>, <<PipRequirements(<<pkg_a, pkg_a>>)>>)

\* The rule lists of the SpecificEntry of include "i1": with a fallback,
\* first-match among overlapping patterns, one that leaves cuda 12 (and the
\* empty combo) unmatched, and one with two fallbacks.
SpecificVariants ==
    { <<rule_11, rule_fallback>>,
      <<rule_1star, rule_11, rule_fallback_empty>>,
      <<rule_11>>,
      <<rule_fallback, rule_fallback_empty>> }

\* Whether include "i2" tags its pip requirements for requirements files too.
PipTypes == { {"conda"}, {"conda", "requirements"} }

\* File "b": its matrix and its pyproject extras.
FileBVariants ==
    { File({"pyproject"}, <<"i2", "i1">>, <<>>, FileExtras("build-system", TRUE, "")),
      File({"pyproject"}, <<"i2", "i1">>, <<>>, NoExtras),
      File({"pyproject", "conda"}, <<"i2">>, <<>>, FileExtras("tool.rapids", TRUE, "")),
      File({"pyproject"}, <<"i2">>, <<>>, FileExtras("tool.rapids", FALSE, "requires")),
      File({"pyproject"}, <<"i2">>, <<>>, FileExtras("project", FALSE, "dependencies")),
      File({"pyproject", "requirements"}, <<"i2">>, << <<cuda, <<v11, v12>> >> >>,
           FileExtras("project", TRUE, "")) }

Config(rules, pip_types, file_b) ==
    [files |-> (key_a :> File({"conda", "requirements"}, <<"i1">>,
                              << <<cuda, <<v11, v12>> >> >>, NoExtras)
                @@ key_b :> file_b),
     dependencies |->
        [i1 |-> DependencySet(
                    << CommonEntry(AllTypes, <<StrDep(pkg_b), StrDep(pkg_a), StrDep(pkg_b)>>) >>,
                    << SpecificEntry({"conda", "requirements"}, rules) >>),
         i2 |-> DependencySet(
                    << CommonEntry({"conda", "pyproject"}, <<StrDep(pkg_y)>>),
                       CommonEntry(pip_types, <<PipRequirements(<<pkg_y, pkg_x>>)>>) >>,
                    << SpecificEntry(pip_types, <<rule_pip_11, rule_pip_fallback>>) >>)],
     channels |-> <<"conda-forge">>]

Configs ==
    {Config(rules, pip_types, file_b) :
        rules \in SpecificVariants, pip_types \in PipTypes, file_b \in FileBVariants}

FileKeyLists == { <<key_a>>, <<key_b>>, <<key_a, key_b>>, <<key_b, key_a>> }

Outputs == {NoOutput} \union {[given |-> TRUE, types |-> T] : T \in SUBSET AllTypes}

Matrices ==
    { NoMatrix,
      [given |-> TRUE, dict |-> <<>>],
      [given |-> TRUE, dict |-> << <<cuda, <<v11, v12>> >> >>],
      [given |-> TRUE, dict |-> << <<cuda, <<v1_1, v11>> >> >>] }

Init ==
    /\ parsed_config \in Configs
    /\ args \in [file_keys : FileKeyLists, output : Outputs, matrix : Matrices,
                 prepend_channels : {<<"rapidsai">>}, to_stdout : BOOLEAN]
    /\ output = args.output.types
    /\ pc = "call"
    /\ key_index = 0
    /\ todo = <<>>
    /\ written = <<>>
    /\ printed = <<>>
    /\ raised = NotRaised
    /\ processed = <<>>
    /\ all_dependencies = EmptyCollection
    /\ upd_deps = <<>> /\ upd_again = EmptyCollection /\ upd_permuted = EmptyCollection
    /\ GridIdle
    /\ MatchIdle
    /\ ResIdle

run_const == <<parsed_config, args, grid_vars, match_vars, res_vars, coll_ghosts>>

\* Lines 396-407: the stdout/pyproject check, then the accumulator.
Enter ==
    /\ pc = "call"
    /\ IF /\ args.to_stdout /\ Len(args.file_keys) > 1
          /\ args.output.given /\ "pyproject" \in output
       THEN /\ raised' = Raise("ValueError",
                    "Using --file-key multiple times together with '--output pyproject' when writing to stdout is not supported.",
                    "call")
            /\ pc' = "done"
            /\ UNCHANGED key_index
       ELSE /\ pc' = "file_key"
            /\ key_index' = 1
            /\ UNCHANGED raised
    /\ all_dependencies' = EmptyCollection
    /\ UNCHANGED <<output, todo, written, printed, processed, run_const>>

\* Lines 409-420 for the next file key: the effective types and matrix, the
\* grid, the pyproject check; the set of types is then iterated in some order.
BeginFileKey ==
    /\ pc = "file_key"
    /\ key_index <= Len(args.file_keys)
    /\ LET file_key == args.file_keys[key_index]
           file_config == parsed_config.files[file_key]
           types == file_types_to_generate(file_config, args.output.given, output)
           calculated_grid == grid(file_matrix(file_config, args.matrix))
       IN  IF "pyproject" \in types /\ Len(calculated_grid) > 1
           THEN /\ raised' = Raise("ValueError",
                        "Pyproject outputs can't have more than one matrix output",
                        "file_key")
                /\ pc' = "done"
                /\ UNCHANGED todo
           ELSE /\ \E type_order \in SetOrders(types) :
                      todo' = tuples_of(file_key, type_order, calculated_grid)
                /\ pc' = "tuple"
                /\ UNCHANGED raised
    /\ UNCHANGED <<output, key_index, written, printed, processed, all_dependencies,
                   run_const>>

\* Lines 421-505 for the next tuple of the file key: resolve, dedupe,
\* render, then print, merge or write.
ProcessTuple ==
    /\ pc = "tuple"
    /\ todo # <<>>
    /\ LET result == tuple_result(parsed_config, args.prepend_channels, Head(todo))
       IN  /\ processed' = Append(processed, Head(todo))
           /\ written' = written_after(written, args.to_stdout, result)
           /\ printed' = printed_after(printed, args.to_stdout, args.file_keys, result)
           /\ all_dependencies' =
                 merged_after(all_dependencies, args.to_stdout, args.file_keys, result)
           /\ IF result.error # ""
              THEN /\ raised' = Raise("ValueError", result.error, "tuple")
                   /\ pc' = "done"
                   /\ UNCHANGED todo
              ELSE /\ todo' = Tail(todo)
                   /\ UNCHANGED <<raised, pc>>
    /\ UNCHANGED <<output, key_index, run_const>>

\* The tuples of the file key are done: on to the next file key.
EndFileKey ==
    /\ pc = "tuple"
    /\ todo = <<>>
    /\ key_index' = key_index + 1
    /\ pc' = "file_key"
    /\ UNCHANGED <<output, todo, written, printed, raised, processed, all_dependencies,
                   run_const>>

\* Lines 507-533, after the last file key: the merged document of a stdout
\* run over several file keys. set.pop() takes any element of the set and
\* raises KeyError on an empty one.
Finish ==
    /\ pc = "file_key"
    /\ key_index > Len(args.file_keys)
    /\ pc' = "done"
    /\ IF ~(args.to_stdout /\ Len(args.file_keys) > 1)
       THEN UNCHANGED <<output, printed, raised>>
       ELSE IF ~args.output.given
       THEN /\ raised' = Raise("AssertionError",
                    "Exactly 1 output type should be provided when asking rapids-dependency-file-generator to write to stdout.",
                    "merge")
            /\ UNCHANGED <<output, printed>>
       ELSE IF output = {}
       THEN /\ raised' = Raise("KeyError", "pop from an empty set", "merge")
            /\ UNCHANGED <<output, printed>>
       ELSE \E file_type \in output :
               LET rendered == make_dependency_file(file_type, NoName,
                                   args.prepend_channels \o parsed_config.channels,
                                   deps_list(all_dependencies), NoExtras)
               IN  /\ output' = output \ {file_type}
                   /\ IF rendered.error # ""
                      THEN /\ raised' = Raise("ValueError", rendered.error, "merge")
                           /\ UNCHANGED printed
                      ELSE /\ printed' = Append(printed, rendered.contents)
                           /\ UNCHANGED raised
    /\ UNCHANGED <<key_index, todo, written, processed, all_dependencies, run_const>>

Next == Enter \/ BeginFileKey \/ ProcessTuple \/ EndFileKey \/ Finish

Spec == Init /\ [][Next]_vars

\* ------------------------------------------------------------------------
\* Properties of grid
\* ------------------------------------------------------------------------

\* n1 * ... * nk for the axis lengths of a gridspec.
RECURSIVE LenProduct(_)
LenProduct(g) == IF g = <<>> THEN 1 ELSE Len(Head(g)[2]) * LenProduct(Tail(g))

PairwiseDistinct(s) == \A i, j \in 1..Len(s) : s[i] = s[j] => i = j

CombosDistinct ==
    \A i, j \in 1..Len(grid_out) : ItemSet(grid_out[i]) = ItemSet(grid_out[j]) => i = j

KeyUnion == UNION {DictKeys(grid_out[i]) : i \in 1..Len(grid_out)}

\* C5 as stated: grid yields n1*...*nk combos, pairwise distinct, the union
\* of whose keys is the key set of the input; the empty mapping yields one
\* empty combo.
C5_AsClaimed ==
    grid_pc = "yielded" =>
        /\ Len(grid_out) = LenProduct(gridspec)
        /\ CombosDistinct
        /\ KeyUnion = DictKeys(gridspec)
        /\ (gridspec = <<>> => grid_out = << <<>> >>)

\* C5 as amended: grid yields exactly n1*...*nk combos and every yielded
\* combo assigns exactly the keys of the input (so the union of the combos'
\* keys is the input's key set whenever a combo is yielded, that is, when no
\* axis is empty); the combos are pairwise distinct when no axis lists a
\* value twice; the empty mapping yields exactly one empty combo.
C5_Grid ==
    grid_pc = "yielded" =>
        /\ Len(grid_out) = LenProduct(gridspec)
        /\ \A i \in 1..Len(grid_out) :
              /\ DictKeys(grid_out[i]) = DictKeys(gridspec)
              /\ \A a \in 1..Len(gridspec) :
                    DictGet(grid_out[i], gridspec[a][1]) \in ToSet(gridspec[a][2])
        /\ (Len(grid_out) > 0 => KeyUnion = DictKeys(gridspec))
        /\ ((\A a \in 1..Len(gridspec) : PairwiseDistinct(gridspec[a][2]))
               => CombosDistinct)
        /\ (gridspec = <<>> => grid_out = << <<>> >>)

\* Two axes of two distinct values each have been expanded to four combos.
C5_Witness ==
    /\ grid_pc = "yielded"
    /\ Len(gridspec) = 2
    /\ \A a \in 1..2 : Len(gridspec[a][2]) = 2 /\ PairwiseDistinct(gridspec[a][2])
    /\ Len(grid_out) = 4

\* ------------------------------------------------------------------------
\* Properties of should_use_specific_entry
\* ------------------------------------------------------------------------

StrictlyAscending(l) == \A i \in 1..(Len(l) - 1) : StrLess(l[i], l[i + 1])

\* The list is plain strings in ascending order without duplicates, then at
\* most one bucket map, each of whose member lists is in ascending order
\* without duplicates.
Canonical(dl) ==
    LET n == Len(dl)
        nplain == IF n > 0 /\ dl[n].isdict THEN n - 1 ELSE n
    IN  /\ \A i \in 1..nplain : ~dl[i].isdict
        /\ StrictlyAscending([i \in 1..nplain |-> dl[i].str])
        /\ \A i \in 1..n : dl[i].isdict =>
              \A k \in DOMAIN dl[i].dict : StrictlyAscending(dl[i].dict[k])

\* C7: after any sequence of update calls from the empty collection,
\* deps_list is canonical: sorted plain strings without duplicates, then at
\* most one bucket map whose member lists are sorted without duplicates.
C7_DepsListCanonical == Canonical(deps_list(all_dependencies))

\* C8: update is idempotent and insensitive to the order of its entries:
\* update(L) twice gives the deps_list of update(L) once, and update on a
\* permutation of L gives the deps_list of update(L).
C8_UpdateIdempotentCommutative ==
    /\ deps_list(upd_again) = deps_list(all_dependencies)
    /\ deps_list(upd_permuted) = deps_list(all_dependencies)

\* ------------------------------------------------------------------------
\* Properties of make_dependency_files
\* ------------------------------------------------------------------------

Failed == pc = "done" /\ raised.kind # ""

\* The position of a file key among the requested ones.
KeyPos(k) == CHOOSE i \in 1..Len(args.file_keys) : args.file_keys[i] = k

\* What the tuple yields, computed from the config alone.
Outcome(t) == tuple_result(parsed_config, args.prepend_channels, t)

\* The tuples whose body ran to its end: all that were entered, but the one
\* that raised.
Completed ==
    IF raised.at = "tuple" THEN SubSeq(processed, 1, Len(processed) - 1) ELSE processed

\* C4 as stated: in file-writing mode a run that ends in an error has
\* written no output file.
C4_AsClaimed == (Failed /\ ~args.to_stdout) => written = <<>>

\* C4 as amended: in file-writing mode the files written are at every
\* moment, and so when a run ends in an error, exactly those of the tuples
\* completed before the failure, one file per tuple in processing order
\* (file keys in the requested order); the failing tuple and the tuples
\* after it write nothing.
C4_WrittenUpToFailure ==
    ~args.to_stdout =>
        /\ Len(written) = Len(Completed)
        /\ \A i \in 1..Len(Completed) :
              /\ Outcome(Completed[i]).error = ""
              /\ written[i] = [file_path |-> Outcome(Completed[i]).file_path,
                               contents |-> Outcome(Completed[i]).contents]
        /\ \A i, j \in 1..Len(processed) :
              i < j => KeyPos(processed[i].file_key) <= KeyPos(processed[j].file_key)
        /\ raised.at = "tuple" =>
              /\ Outcome(processed[Len(processed)]).error = raised.error
              /\ raised.error # ""
        /\ raised.at \in {"call", "file_key", "tuple"} => pc = "done"

\* A run in file-writing mode failed at a tuple of its second file key with
\* the files of the first file key written.
C4_Witness ==
    /\ Failed /\ ~args.to_stdout
    /\ raised.at = "tuple"
    /\ key_index = 2
    /\ Len(written) >= 2
    /\ \A i \in 1..Len(written) : written[i].contents.file_type # ""

\* The effective output types and matrix of a file key, from the arguments
\* as passed.
EffectiveTypes(k) ==
    IF args.output.given THEN args.output.types ELSE parsed_config.files[k].output
EffectiveMatrix(k) ==
    IF args.matrix.given THEN args.matrix.dict ELSE parsed_config.files[k].matrix

\* n1 * ... * nk > 1 for the effective matrix: it expands to several combos.
PyprojectMulti(k) ==
    "pyproject" \in EffectiveTypes(k) /\ LenProduct(EffectiveMatrix(k)) > 1

\* C9: a file key whose effective output types hold PYPROJECT and whose
\* effective matrix expands to more than one combo makes the run fail with a
\* configuration error before any of its tuples, of any output type, is
\* resolved, rendered, printed or written.
C9_PyprojectSingleCombo ==
    \A i \in 1..Len(args.file_keys) :
        PyprojectMulti(args.file_keys[i]) =>
            /\ key_index <= i
            /\ (key_index = i /\ pc # "file_key") =>
                  pc = "done" /\ raised.kind = "ValueError" /\ raised.at = "file_key"
            /\ \A j \in 1..Len(processed) : processed[j].file_key # args.file_keys[i]
            /\ Len(written) + Len(printed) <= Len(processed)

\* The output override adds PYPROJECT to a file key that does not declare
\* it and whose declared matrix has two combos: the run stops at that file
\* key, the second one, after the first file key's files were written.
C9_Witness ==
    /\ pc = "done" /\ raised.at = "file_key"
    /\ key_index = 2
    /\ args.output.given /\ ~args.matrix.given
    /\ "pyproject" \notin parsed_config.files[args.file_keys[2]].output
    /\ PyprojectMulti(args.file_keys[2])
    /\ written # <<>>
    /\ \A j \in 1..Len(processed) : processed[j].file_key = args.file_keys[1]

\* C10: in stdout mode with more than one file key, when the output
\* override is absent or holds more than one type, a run that gets through
\* its file keys ends in an assertion-style fatal and prints no merged
\* document.
C10_ExactlyOneTypeAsserted ==
    ( /\ pc = "done"
      /\ args.to_stdout /\ Len(args.file_keys) > 1
      /\ (~args.output.given \/ Cardinality(args.output.types) > 1)
      /\ raised.at \notin {"call", "file_key", "tuple"} )
    => (raised.kind = "AssertionError" /\ printed = <<>>)

\* A stdout run over several file keys with an override of one output type
\* other than PYPROJECT.
MergedStdout ==
    /\ args.to_stdout /\ Len(args.file_keys) > 1
    /\ args.output.given /\ Cardinality(args.output.types) = 1
    /\ "pyproject" \notin args.output.types

TheType == CHOOSE t \in args.output.types : TRUE

\* Every (file key, combo) tuple of the run for the one type, the file keys
\* in the requested order from the i-th on, the combos in grid order.
RECURSIVE TuplesFrom(_, _)
TuplesFrom(i, file_type) ==
    IF i > Len(args.file_keys) THEN <<>>
    ELSE tuples_of(args.file_keys[i], <<file_type>>,
                   grid(EffectiveMatrix(args.file_keys[i])))
            \o TuplesFrom(i + 1, file_type)

\* The plain packages and the pip requirements of a tuple's deduplicated
\* list.
PlainOf(dl) == {dl[i].str : i \in {j \in 1..Len(dl) : ~dl[j].isdict}}
PipOf(dl) == UNION {ToSet(dl[i].dict["pip"]) : i \in {j \in 1..Len(dl) : dl[j].isdict}}

PlainUnion(ts) == UNION {PlainOf(Outcome(ts[i]).deduped_deps) : i \in 1..Len(ts)}
PipUnion(ts) == UNION {PipOf(Outcome(ts[i]).deduped_deps) : i \in 1..Len(ts)}

\* dl is the canonical form of the union of the tuples' lists: every plain
\* package once, ascending, then, iff some tuple had pip requirements, one
\* pip bucket with every pip requirement once, ascending.
CanonicalUnionOf(dl, ts) ==
    LET n == Len(dl)
        has_bucket == n > 0 /\ dl[n].isdict
    IN  /\ Canonical(dl)
        /\ PlainOf(dl) = PlainUnion(ts)
        /\ has_bucket = (PipUnion(ts) # {})
        /\ has_bucket =>
              /\ DOMAIN dl[n].dict = {"pip"}
              /\ ToSet(dl[n].dict["pip"]) = PipUnion(ts)

\* C11: in stdout mode with more than one file key and a single
\* non-PYPROJECT output type, nothing is printed per tuple, and a run that
\* succeeds has gone through every (file key, combo) tuple in file-key order
\* and printed, after the last file key, exactly one document, of that type,
\* whose dependency list is the canonical form of the union of the tuples'
\* deduplicated lists.
C11_MergedDocument ==
    MergedStdout =>
        /\ pc # "done" => printed = <<>>
        /\ Len(printed) <= 1
        /\ (pc = "done" /\ raised.kind = "") =>
              /\ processed = TuplesFrom(1, TheType)
              /\ Len(printed) = 1
              /\ printed[1].file_type = TheType
              /\ printed[1].name = NoName
              /\ CanonicalUnionOf(printed[1].dependencies, processed)

\* A conda run over two file keys and a matrix of two combos succeeded: its
\* one document holds a pip bucket of four requirements that no single
\* tuple had in full, and plain packages of both file keys.
C11_Witness ==
    /\ MergedStdout /\ pc = "done" /\ raised.kind = ""
    /\ Len(processed) = 4
    /\ Len(printed) = 1
    /\ Cardinality(PipUnion(processed)) = 4
    /\ \A i \in 1..Len(processed) :
          /\ PipOf(Outcome(processed[i]).deduped_deps) # PipUnion(processed)
          /\ PlainOf(Outcome(processed[i]).deduped_deps) # PlainUnion(processed)
    /\ printed[1].dependencies[Len(printed[1].dependencies)].dict["pip"]
          = <<pkg_a, pkg_b, pkg_x, pkg_y>>

\* Two tuples of one file key and one output type, CONDA or REQUIREMENTS,
\* whose combos differ.
SameFileOtherCombo(t, u) ==
    /\ t.file_key = u.file_key
    /\ t.file_type = u.file_type
    /\ t.file_type \in {"conda", "requirements"}
    /\ ItemSet(t.matrix_combo) # ItemSet(u.matrix_combo)

\* C12: in file-writing mode, get_filename gives two tuples of the same file
\* key and the same output type, CONDA or REQUIREMENTS, whose combos differ,
\* different file names, and no two such tuples of a run write to the same
\* path.
C12_NoOverwrite ==
    ~args.to_stdout =>
        /\ \A i, j \in 1..Len(processed) :
              SameFileOtherCombo(processed[i], processed[j]) =>
                  get_filename(processed[i].file_type, processed[i].file_key,
                               processed[i].matrix_combo)
                    # get_filename(processed[j].file_type, processed[j].file_key,
                                   processed[j].matrix_combo)
        /\ \A i, j \in 1..Len(written) :
              SameFileOtherCombo(Completed[i], Completed[j]) =>
                  written[i].file_path # written[j].file_path

\* ------------------------------------------------------------------------
\* Properties of the resolution of one SpecificEntry
\* ------------------------------------------------------------------------

\* The rule matrix m matches the combo: every key of m is in the combo with
\* a value that glob-matches m's pattern.
RuleMatches(combo, m) ==
    \A item \in ItemSet(m) :
        item[1] \in DictKeys(combo) /\ fnmatch(DictGet(combo, item[1]), item[2])

Rules == res_entry.matrices

\* The non-empty rules that match the combo, and the empty-matrix rules.
MatchingRules ==
    {i \in 1..Len(Rules) : Rules[i].matrix # <<>> /\ RuleMatches(res_combo, Rules[i].matrix)}
FallbackRules == {i \in 1..Len(Rules) : Rules[i].matrix = <<>>}

MatricesDistinct ==
    \A i, j \in 1..Len(Rules) : ItemSet(Rules[i].matrix) = ItemSet(Rules[j].matrix) => i = j

Tagged == res_file_type \in res_entry.output_types

Least(S) == CHOOSE i \in S : \A j \in S : i <= j

\* C1: a tagged entry with pairwise distinct matrices contributes exactly
\* the packages of the first non-empty rule, in declared order, that matches
\* the combo; the fallback contributes only when no non-empty rule matches,
\* wherever it is declared; no second rule contributes.
C1_FirstMatchThenFallback ==
    (res_pc = "resolved" /\ Tagged /\ MatricesDistinct) =>
        /\ MatchingRules # {} =>
              /\ res_out.error = ""
              /\ res_out.rule = Least(MatchingRules)
              /\ res_out.packages = Rules[Least(MatchingRules)].packages
        /\ MatchingRules = {} =>
              /\ res_out.rule \in FallbackRules \union {0}
              /\ res_out.rule = 0 => res_out.packages = <<>>
              /\ res_out.rule # 0 => res_out.packages = Rules[res_out.rule].packages
        /\ res_out.rule \in FallbackRules => MatchingRules = {}
        /\ FallbackRules = {} => res_out.rule \in MatchingRules \union {0}

\* The fallback is declared first, the second rule matches and is used,
\* and a third rule matches too.
C1_Witness ==
    /\ res_pc = "resolved" /\ Tagged /\ MatricesDistinct
    /\ Len(Rules) = 3
    /\ Rules[1].matrix = <<>> /\ Rules[1].packages # <<>>
    /\ MatchingRules = {2, 3}
    /\ res_out.rule = 2
    /\ res_out.packages = Rules[2].packages
    /\ res_out.packages # Rules[3].packages

\* C2: a tagged entry two of whose rules have the same matrix as a set of
\* key/value pairs (two fallbacks included) fails with a configuration error
\* for every combo, also one a non-duplicated rule matches, and no rule of
\* the entry is selected.
C2_DuplicateMatrixRejected ==
    (res_pc = "resolved" /\ Tagged /\ ~MatricesDistinct) =>
        /\ res_out.error = "All matrix entries must be unique"
        /\ res_out.rule = 0
        /\ res_out.packages = <<>>

\* Two rules hold the same pairs in different orders, and the rule declared
\* first, which is no duplicate, matches the combo: the entry is rejected.
C2_Witness ==
    /\ res_pc = "resolved" /\ Tagged
    /\ Len(Rules) = 3
    /\ 1 \in MatchingRules
    /\ ItemSet(Rules[1].matrix) \notin {ItemSet(Rules[2].matrix), ItemSet(Rules[3].matrix)}
    /\ Rules[2].matrix # Rules[3].matrix
    /\ ItemSet(Rules[2].matrix) = ItemSet(Rules[3].matrix)
    /\ res_out.error = "All matrix entries must be unique"

\* C3: for a tagged entry with pairwise distinct matrices the resolution
\* fails iff no non-empty rule matches and there is no empty-matrix rule;
\* with an empty-matrix rule it succeeds, also when that rule's package list
\* is empty, and then contributes nothing.
C3_UnmatchedIffNoFallback ==
    (res_pc = "resolved" /\ Tagged /\ MatricesDistinct) =>
        /\ (res_out.error # "") = (MatchingRules = {} /\ FallbackRules = {})
        /\ res_out.error # "" => res_out.error = "No matching matrix found"
        /\ (MatchingRules = {} /\ \E i \in FallbackRules : Rules[i].packages = <<>>) =>
              res_out.error = "" /\ res_out.packages = <<>>

\* No rule matches and the fallback has no packages: the resolution
\* succeeds with nothing contributed.
C3_Witness ==
    /\ res_pc = "resolved" /\ Tagged /\ MatricesDistinct
    /\ Len(Rules) >= 2
    /\ MatchingRules = {}
    /\ res_out.rule \in FallbackRules
    /\ res_out.error = ""
    /\ res_out.packages = <<>>

====
